---- MODULE Spec2Model ----
(***************************************************************************)
(* Flat veering triangulations: the layout object                          *)
(* (FlatVeeringTriangulationLayout), the flat structure constructor        *)
(* (FlatVeeringTriangulation) and the square-tiling moves                  *)
(* (SquaredTriangulation).                                                 *)
(*                                                                         *)
(* Half-edges are the integers 0..n-1.  fp is the face permutation (its    *)
(* cycles are the triangles), ep the edge pairing.  The exact field is     *)
(* modelled by the integers: every input vector is integral and every      *)
(* operation of the code (+, -, unary minus, products of two coordinates,  *)
(* comparison) stays inside the integers.  A vector is a pair <<x, y>>.    *)
(***************************************************************************)
EXTENDS Integers, Sequences, FiniteSets, TLC

VARIABLES
    fp,          \* Layout._triangulation._fp
    ep,          \* Layout._triangulation._ep
    colouring,   \* Layout._triangulation._colouring
    vectors,     \* Layout._vectors
    pos,         \* Layout._pos (None, or one point or None per half-edge)
    pc,          \* position of the running set_pos call ("idle" outside it)
    face_seen,   \* set_pos local
    wait,        \* set_pos local (reshuffled before every pop: a set)
    q,           \* set_pos local
    y,           \* set_pos local: current height
    bbox,        \* set_pos locals xmin, xmax, ymin, ymax
    y_space,     \* set_pos argument
    err,         \* how the last call ended: "none" or the exception raised
    last,        \* the last call and its arguments
    pre,         \* the object as it was when the last call started
    nops,        \* number of calls made on the object so far
    flat,        \* a constructor call: its arguments, the object built, the exception
    sq,          \* a SquaredTriangulation (self)
    ret          \* what the last SquaredTriangulation call returned

layoutvars == <<fp, ep, colouring, vectors, pos, pc, face_seen, wait, q, y,
                bbox, y_space, err, last, pre, nops>>
vars == <<fp, ep, colouring, vectors, pos, pc, face_seen, wait, q, y,
          bbox, y_space, err, last, pre, nops, flat, sq, ret>>

-----------------------------------------------------------------------------
(* Bounds of the model *)

MaxCoord == 4
MaxOps == 3
MaxCylLen == 2
MaxCyls == 2
MaxGap == 1
MaxSetPos == 1

-----------------------------------------------------------------------------
(* Colours, vectors *)

RED == "RED"
BLUE == "BLUE"
PURPLE == "PURPLE"
GREEN == "GREEN"

None == <<>>

Add(u, v) == <<u[1] + v[1], u[2] + v[2]>>
Neg(v) == <<0 - v[1], 0 - v[2]>>
Zero == <<0, 0>>

det2(u, v) == u[1] * v[2] - u[2] * v[1]

Min2(a, b) == IF a <= b THEN a ELSE b
Max2(a, b) == IF a >= b THEN a ELSE b
Abs(a) == IF a >= 0 THEN a ELSE 0 - a

vec_slope_asym(v) ==
    IF v[1] = 0 THEN GREEN
    ELSE IF v[2] = 0 THEN PURPLE
    ELSE IF v[1] > 0 /\ v[2] > 0 THEN RED
    ELSE BLUE

vec_slope(v) ==
    IF v[1] = 0 THEN GREEN
    ELSE IF v[2] = 0 THEN PURPLE
    ELSE IF v[1] * v[2] > 0 THEN RED
    ELSE BLUE

-----------------------------------------------------------------------------
(* The base triangulation *)

FaceOf(f, e) == {e, f[e], f[f[e]]}

SetMin(S) == CHOOSE x \in S : \A z \in S : x <= z

num_half_edges(f) == Cardinality(DOMAIN f)

\* Triangulation.faces(): the triples (a, fp[a], fp[fp[a]]), each starting at
\* its smallest half-edge, in increasing order of that half-edge; indexed
\* from 0.  FaceRoots is the set of these smallest half-edges.
FaceRoots(f) == {e \in DOMAIN f : e < f[e] /\ e < f[f[e]]}

faces(f) ==
    LET roots == FaceRoots(f)
        nth(i) == CHOOSE r \in roots : Cardinality({s \in roots : s < r}) = i
    IN [i \in 0..(Cardinality(roots) - 1) |-> <<nth(i), f[nth(i)], f[f[nth(i)]]>>]

num_faces(f) == Cardinality(FaceRoots(f))

\* half_edge_to_face[e]: the index in faces() of the face of e.
half_edge_to_face(f, e) ==
    Cardinality({r \in FaceRoots(f) : r < SetMin(FaceOf(f, e))})

\* fp is a permutation whose cycles have length 3, ep an involution.
TriangulationCheck(f, p) ==
    /\ DOMAIN f = DOMAIN p
    /\ \A e \in DOMAIN f : f[e] \in DOMAIN f /\ p[e] \in DOMAIN f
    /\ \A e \in DOMAIN f : f[f[f[e]]] = e /\ f[e] # e
    /\ \A e \in DOMAIN f : p[p[e]] = e

TriangulationFlip(f, p, e) ==
    LET E == p[e]
        a == f[e]
        b == f[a]
        c == f[E]
        d == f[c]
    IN [f EXCEPT ![e] = b, ![b] = c, ![c] = e, ![a] = E, ![E] = d, ![d] = a]

is_forward_flippable(f, p, col, e) ==
    LET E == p[e]
        a == f[e]
        b == f[a]
        c == f[E]
        d == f[c]
    IN /\ e # E /\ a # E /\ b # E
       /\ col[a] = RED /\ col[b] = BLUE
       /\ col[c] = RED /\ col[d] = BLUE

-----------------------------------------------------------------------------
(* The layout object as a value *)

self == [fp |-> fp, ep |-> ep, colouring |-> colouring,
         vectors |-> vectors, pos |-> pos]

PairingOK(o) ==
    \A a \in DOMAIN o.fp :
        o.vectors[a] = o.vectors[o.ep[a]] \/ o.vectors[a] = Neg(o.vectors[o.ep[a]])

ZeroSumOK(o) ==
    \A a \in DOMAIN o.fp :
        Add(Add(o.vectors[a], o.vectors[o.fp[a]]), o.vectors[o.fp[o.fp[a]]]) = Zero

PositionsOK(o) ==
    o.pos # None =>
        \A a \in DOMAIN o.fp :
            /\ o.pos[a] # None
            /\ o.pos[o.fp[a]] # None
            /\ Add(o.pos[a], o.vectors[a]) = o.pos[o.fp[a]]

\* "for a,b,c in faces()": the exception the first offending face raises; a
\* face is named by its smallest half-edge, in the order of faces().
FacesError(o) ==
    LET sums(a) == Add(Add(o.vectors[a], o.vectors[o.fp[a]]),
                       o.vectors[o.fp[o.fp[a]]]) = Zero
        ccw(a) == \A b \in FaceOf(o.fp, a) : det2(o.vectors[b], o.vectors[o.fp[b]]) > 0
        bad == {a \in FaceRoots(o.fp) : ~sums(a) \/ ~ccw(a)}
    IN IF \A a \in FaceRoots(o.fp) : sums(a) /\ ccw(a) THEN "none"
       ELSE IF ~sums(SetMin(bad)) THEN "ValueError: do not sum to zero"
       ELSE "ValueError: clockwise triangle"

\* FlatVeeringTriangulationLayout._check: "none", or the exception raised.
_check(o) ==
    IF ~TriangulationCheck(o.fp, o.ep) THEN "ValueError: triangulation"
    ELSE IF ~PairingOK(o) THEN "ValueError: ep"
    ELSE IF FacesError(o) # "none" THEN FacesError(o)
    ELSE IF ~PositionsOK(o) THEN "ValueError: pos"
    ELSE "none"

-----------------------------------------------------------------------------
(* xy_scaling, _edge_is_boundary, glue_side_by_side, flip *)

Result(o, e) == [obj |-> o, err |-> e]

xy_scaling(o, sx, sy) ==
    [o EXCEPT !.vectors = [i \in DOMAIN o.vectors |->
                              <<sx * o.vectors[i][1], sy * o.vectors[i][2]>>]]

_edge_is_boundary(o, e) ==
    \/ o.pos[o.fp[e]] # o.pos[o.ep[e]]
    \/ o.vectors[e] # Neg(o.vectors[o.ep[e]])

NegateFace(vec, a, b, c) ==
    [vec EXCEPT ![a] = Neg(vec[a]), ![b] = Neg(vec[b]), ![c] = Neg(vec[c])]

\* glue_side_by_side without the negation of lines 508-511: the face is laid
\* against A with the vectors it had.
glue_side_by_side_unturned(o, a) ==
    LET A == o.ep[a]
        b == o.fp[a]
        c == o.fp[b]
        pa == Add(o.pos[A], o.vectors[A])
        pb == Add(pa, o.vectors[a])
        pc_ == Add(pb, o.vectors[b])
        o1 == [o EXCEPT !.pos = [o.pos EXCEPT ![a] = pa, ![b] = pb, ![c] = pc_]]
    IN IF ~_edge_is_boundary(o, a) THEN Result(o, "none")
       ELSE IF a = A THEN Result(o, "none")
       ELSE Result(o1, "none")

glue_side_by_side(o, a) ==
    LET A == o.ep[a]
        b == o.fp[a]
        c == o.fp[b]
        vec == IF o.vectors[a] = o.vectors[A]
               THEN NegateFace(o.vectors, a, b, c) ELSE o.vectors
        pa == Add(o.pos[A], vec[A])
        pb == Add(pa, vec[a])
        pc_ == Add(pb, vec[b])
        o1 == [o EXCEPT !.vectors = vec,
                        !.pos = [o.pos EXCEPT ![a] = pa, ![b] = pb, ![c] = pc_]]
    IN IF ~_edge_is_boundary(o, a) THEN Result(o, "none")
       ELSE IF a = A THEN Result(o, "none")
       ELSE Result(o1, _check(o1))

flip_check_late(o, e) ==
    LET E == o.ep[e]
        a == o.fp[e]
        b == o.fp[a]
        c == o.fp[E]
        d == o.fp[c]
        vec == [o.vectors EXCEPT ![e] = Add(o.vectors[d], o.vectors[a]),
                                 ![E] = Add(o.vectors[b], o.vectors[c])]
        o2 == [o EXCEPT !.vectors = vec]
    IN IF ~is_forward_flippable(o.fp, o.ep, o.colouring, e)
       THEN Result(o2, "ValueError: not flippable")
       ELSE Result(o2, _check(o2))

\* flip that gives e the sum meant for E and E the one meant for e, and
\* returns without the final check.
flip_sums_swapped(o, e) ==
    LET E == o.ep[e]
        g == IF o.pos # None THEN glue_side_by_side(o, E) ELSE Result(o, "none")
        o1 == g.obj
        a == o1.fp[e]
        b == o1.fp[a]
        c == o1.fp[E]
        d == o1.fp[c]
        ve == Add(o1.vectors[b], o1.vectors[c])
        vE == Add(o1.vectors[d], o1.vectors[a])
        o2 == [o1 EXCEPT
                 !.pos = IF o1.pos # None
                         THEN [o1.pos EXCEPT ![e] = o1.pos[d], ![E] = o1.pos[b]]
                         ELSE None,
                 !.vectors = [o1.vectors EXCEPT ![e] = ve, ![E] = vE],
                 !.fp = TriangulationFlip(o1.fp, o1.ep, e),
                 !.colouring = [o1.colouring EXCEPT ![e] = vec_slope(ve),
                                                    ![E] = vec_slope(ve)]]
    IN IF ~is_forward_flippable(o.fp, o.ep, o.colouring, e)
       THEN Result(o, "ValueError: not flippable")
       ELSE IF g.err # "none" THEN g
       ELSE Result(o2, "none")

flip(o, e) ==
    LET E == o.ep[e]
        g == IF o.pos # None THEN glue_side_by_side(o, E) ELSE Result(o, "none")
        o1 == g.obj
        a == o1.fp[e]
        b == o1.fp[a]
        c == o1.fp[E]
        d == o1.fp[c]
        ve == Add(o1.vectors[d], o1.vectors[a])
        vE == Add(o1.vectors[b], o1.vectors[c])
        o2 == [o1 EXCEPT
                 !.pos = IF o1.pos # None
                         THEN [o1.pos EXCEPT ![e] = o1.pos[d], ![E] = o1.pos[b]]
                         ELSE None,
                 !.vectors = [o1.vectors EXCEPT ![e] = ve, ![E] = vE],
                 !.fp = TriangulationFlip(o1.fp, o1.ep, e),
                 !.colouring = [o1.colouring EXCEPT ![e] = vec_slope(ve),
                                                    ![E] = vec_slope(ve)]]
    IN IF ~is_forward_flippable(o.fp, o.ep, o.colouring, e)
       THEN Result(o, "ValueError: not flippable")
       ELSE IF g.err # "none" THEN g
       ELSE Result(o2, _check(o2))

-----------------------------------------------------------------------------
(* set_pos *)

BBox(x0, x1, y0, y1) == [xmin |-> x0, xmax |-> x1, ymin |-> y0, ymax |-> y1]

\* xmin = min(xmin, pos[a][0], ...) and so on, for the three corners of a face.
Grow(bb, pa, pb, pc_) ==
    BBox(Min2(Min2(bb.xmin, pa[1]), Min2(pb[1], pc_[1])),
         Max2(Max2(bb.xmax, pa[1]), Max2(pb[1], pc_[1])),
         Min2(Min2(bb.ymin, pa[2]), Min2(pb[2], pc_[2])),
         Max2(Max2(bb.ymax, pa[2]), Max2(pb[2], pc_[2])))

\* A translation that forgets the height: only the x-coordinate of t is added.
TranslateFaceLevel(p, a, b, c, t) ==
    [p EXCEPT ![a] = Add(p[a], <<t[1], 0>>), ![b] = Add(p[b], <<t[1], 0>>),
              ![c] = Add(p[c], <<t[1], 0>>)]

\* pos[a] += t; pos[b] += t; pos[c] += t
TranslateFace(p, a, b, c, t) ==
    [p EXCEPT ![a] = Add(p[a], t), ![b] = Add(p[b], t), ![c] = Add(p[c], t)]

\* The state threaded through the cylinder phase.
CylState(vec, p, seen, bb, yy, e) ==
    [vectors |-> vec, pos |-> p, face_seen |-> seen, bbox |-> bb, y |-> yy, err |-> e]

\* The placement of a cylinder face that forgets to mark the face.
CylinderPlaceUnmarked(f, p, st, e) ==
    LET a == p[e]
        b == f[a]
        c == f[b]
        vec == IF st.vectors[a] = st.vectors[e]
               THEN NegateFace(st.vectors, a, b, c) ELSE st.vectors
        pa == Add(st.pos[e], vec[e])
        pb == Add(pa, vec[a])
        pc_ == Add(pb, vec[b])
    IN IF st.err # "none" THEN st
       ELSE IF st.pos[e] = None
       THEN [st EXCEPT !.vectors = vec, !.err = "TypeError"]
       ELSE CylState(vec, [st.pos EXCEPT ![a] = pa, ![b] = pb, ![c] = pc_],
                     st.face_seen, Grow(st.bbox, pa, pb, pc_), st.y, "none")

\* One iteration of "for e in cyl" (placement).
CylinderPlace(f, p, st, e) ==
    LET a == p[e]
        b == f[a]
        c == f[b]
        seen == [st.face_seen EXCEPT ![half_edge_to_face(f, a)] = TRUE]
        vec == IF st.vectors[a] = st.vectors[e]
               THEN NegateFace(st.vectors, a, b, c) ELSE st.vectors
        pa == Add(st.pos[e], vec[e])
        pb == Add(pa, vec[a])
        pc_ == Add(pb, vec[b])
    IN IF st.err # "none" THEN st
       ELSE IF st.pos[e] = None
       THEN [st EXCEPT !.face_seen = seen, !.vectors = vec, !.err = "TypeError"]
       ELSE CylState(vec, [st.pos EXCEPT ![a] = pa, ![b] = pb, ![c] = pc_],
                     seen, Grow(st.bbox, pa, pb, pc_), st.y, "none")

RECURSIVE CylinderWalk(_, _, _, _, _)
CylinderWalk(f, p, st, cyl, i) ==
    IF i > Len(cyl) THEN st
    ELSE CylinderWalk(f, p, CylinderPlace(f, p, st, cyl[i]), cyl, i + 1)

RECURSIVE CylinderTranslate(_, _, _, _, _, _)
CylinderTranslate(f, p, ps, cyl, i, t) ==
    IF i > Len(cyl) THEN ps
    ELSE LET a == p[cyl[i]]
             b == f[a]
             c == f[b]
         IN CylinderTranslate(f, p, TranslateFace(ps, a, b, c, t), cyl, i + 1, t)

\* One iteration of "for cyl in cylinders".
Cylinder(f, p, st, cyl, gap) ==
    LET st0 == [st EXCEPT !.bbox = BBox(0, 0, 0, 0),
                          !.pos = [st.pos EXCEPT ![cyl[1]] = Zero]]
        st1 == CylinderWalk(f, p, st0, cyl, 1)
        bb == st1.bbox
        t == <<0 - bb.xmin, st1.y - bb.ymin>>
    IN IF st.err # "none" THEN st
       ELSE IF st1.err # "none" THEN st1
       ELSE [st1 EXCEPT !.pos = CylinderTranslate(f, p, st1.pos, cyl, 1, t),
                        !.y = st1.y + (bb.ymax - bb.ymin) + gap]

RECURSIVE Cylinders(_, _, _, _, _, _)
Cylinders(f, p, st, cylinders, k, gap) ==
    IF k > Len(cylinders) THEN st
    ELSE Cylinders(f, p, Cylinder(f, p, st, cylinders[k], gap), cylinders, k + 1, gap)

\* "cylinder badly set": some corner is set in an unseen face, or unset in a
\* seen one.
CylinderBadlySet(f, p, seen) ==
    \E e \in DOMAIN f : (p[e] = None) # (seen[half_edge_to_face(f, e)] = FALSE)

\* Placement of the root face of a tree.
RootPlace(vec, p, F) ==
    LET a == F[1]
        b == F[2]
        c == F[3]
        pa == Zero
        pb == Add(pa, vec[a])
        pc_ == Add(pb, vec[b])
    IN [pos |-> [p EXCEPT ![a] = pa, ![b] = pb, ![c] = pc_],
        bbox |-> Grow(BBox(0, 0, 0, 0), pa, pb, pc_)]

\* The state threaded through "for e in t_edges".
TreeState(vec, p, seen, w, qq, bb, e) ==
    [vectors |-> vec, pos |-> p, face_seen |-> seen, wait |-> w, q |-> qq,
     bbox |-> bb, err |-> e]

\* ForestPlace with the corners computed from the vectors as they were before
\* the sign correction.
ForestPlaceStale(f, p, st, t, e) ==
    LET a == p[e]
        ff == half_edge_to_face(f, a)
        b == f[a]
        c == f[b]
        vec == IF st.vectors[e] = st.vectors[p[e]]
               THEN NegateFace(st.vectors, a, b, c) ELSE st.vectors
        pa == Add(st.pos[e], st.vectors[e])
        pb == Add(pa, st.vectors[a])
        pc_ == Add(pb, st.vectors[b])
    IN IF st.err # "none" THEN st
       ELSE IF st.pos[e] = None \/ half_edge_to_face(f, e) # t
       THEN [st EXCEPT !.err = "AssertionError"]
       ELSE IF st.face_seen[ff] = FALSE
       THEN TreeState(vec, [st.pos EXCEPT ![a] = pa, ![b] = pb, ![c] = pc_],
                      [st.face_seen EXCEPT ![ff] = TRUE],
                      st.wait \cup {ff}, Append(st.q, ff),
                      Grow(st.bbox, pa, pb, pc_), "none")
       ELSE st

\* ForestPlace that marks the neighbour as seen and queues it without placing
\* its corners.
ForestPlaceUnplaced(f, p, st, t, e) ==
    LET ff == half_edge_to_face(f, p[e])
    IN IF st.err # "none" THEN st
       ELSE IF st.pos[e] = None \/ half_edge_to_face(f, e) # t
       THEN [st EXCEPT !.err = "AssertionError"]
       ELSE IF st.face_seen[ff] = FALSE
       THEN [st EXCEPT !.face_seen = [st.face_seen EXCEPT ![ff] = TRUE],
                       !.wait = st.wait \cup {ff},
                       !.q = Append(st.q, ff)]
       ELSE st

\* One iteration of "for e in t_edges" for the popped face t.
ForestPlace(f, p, st, t, e) ==
    LET a == p[e]
        ff == half_edge_to_face(f, a)
        b == f[a]
        c == f[b]
        vec == IF st.vectors[e] = st.vectors[p[e]]
               THEN NegateFace(st.vectors, a, b, c) ELSE st.vectors
        pa == Add(st.pos[e], vec[e])
        pb == Add(pa, vec[a])
        pc_ == Add(pb, vec[b])
    IN IF st.err # "none" THEN st
       ELSE IF st.pos[e] = None \/ half_edge_to_face(f, e) # t
       THEN [st EXCEPT !.err = "AssertionError"]
       ELSE IF st.face_seen[ff] = FALSE
       THEN TreeState(vec, [st.pos EXCEPT ![a] = pa, ![b] = pb, ![c] = pc_],
                      [st.face_seen EXCEPT ![ff] = TRUE],
                      st.wait \cup {ff}, Append(st.q, ff),
                      Grow(st.bbox, pa, pb, pc_), "none")
       ELSE st

\* "for e in t_edges": the state after one iteration is the state of the next.
RECURSIVE ForestVisit(_, _, _, _, _, _)
ForestVisit(f, p, st, t, t_edges, i) ==
    IF i > Len(t_edges) THEN st
    ELSE CHOOSE r \in { ForestVisit(f, p, s, t, t_edges, i + 1) :
                           s \in {ForestPlace(f, p, st, t, t_edges[i])} } : TRUE

RECURSIVE TreeTranslate(_, _, _, _, _)
TreeTranslate(f, ps, qq, i, t) ==
    IF i > Len(qq) THEN ps
    ELSE LET F == faces(f)[qq[i]]
         IN TreeTranslate(f, TranslateFace(ps, F[1], F[2], F[3], t), qq, i + 1, t)

\* The orders shuffle(t_edges) can produce.
Shuffles(F) ==
    {s \in [1..3 -> {F[1], F[2], F[3]}] : {s[1], s[2], s[3]} = {F[1], F[2], F[3]}}

-----------------------------------------------------------------------------
(* Inputs of the layout constructor *)

Fn(s) == [i \in 0..(Len(s) - 1) |-> s[i + 1]]

\* Two triangles (0,1,2) and (5,4,3).
TwoFaces == Fn(<<1, 2, 0, 5, 3, 4>>)
\* ~e = n-1-e: the torus "(0,1,2)(~0,~1,~2)".
TorusEp == Fn(<<5, 4, 3, 2, 1, 0>>)
\* Half-edges 2 and 3 glued, the other four edges folded.
FoldedEp == Fn(<<0, 1, 3, 2, 4, 5>>)

BaseTriangles ==
    { <<<<1, 2>>, <<-2, -1>>, <<1, -1>>>>,
      <<<<2, 1>>, <<-1, 1>>, <<-1, -2>>>> }

Scale(k, v) == <<k * v[1], k * v[2]>>

\* Triangle (0,1,2) carries s0 * T, triangle (5,4,3) carries -s1 * T (in the
\* order 5,4,3), for a positively oriented triangle T.
TwoFaceVectors(T, s0, s1) ==
    Fn(<<Scale(s0, T[1]), Scale(s0, T[2]), Scale(s0, T[3]),
         Scale(0 - s1, T[3]), Scale(0 - s1, T[2]), Scale(0 - s1, T[1])>>)

TwoFaceInputs ==
    { [fp |-> TwoFaces, ep |-> p, vectors |-> TwoFaceVectors(T, s0, s1)] :
        p \in {TorusEp, FoldedEp}, T \in BaseTriangles,
        s0 \in {1, -1}, s1 \in {1, -1} }

\* Four triangles [(~5,~3,4), (~4,5,0), (~2,1,3), (~1,~0,2)] with ~e = 11-e:
\* the faces (0,7,5), (1,3,9), (2,10,11), (4,6,8).
FourFaces == Fn(<<7, 3, 10, 9, 6, 0, 8, 5, 4, 1, 11, 2>>)
FourFacesEp == Fn(<<11, 10, 9, 8, 7, 6, 5, 4, 3, 2, 1, 0>>)

\* A translation structure on it (vector(~e) = -vector(e)).
FourFacesBase ==
    Fn(<<<<1, -2>>, <<-2, 1>>, <<-1, -1>>, <<1, -2>>, <<-1, -1>>, <<-2, 1>>,
         <<2, -1>>, <<1, 1>>, <<-1, 2>>, <<1, 1>>, <<2, -1>>, <<-1, 2>>>>)

\* The same surface with the vectors of the faces in N negated.
FourFacesVectors(N) ==
    [e \in DOMAIN FourFaces |->
        IF SetMin(FaceOf(FourFaces, e)) \in N
        THEN Neg(FourFacesBase[e]) ELSE FourFacesBase[e]]

FourFaceInputs ==
    { [fp |-> FourFaces, ep |-> FourFacesEp, vectors |-> FourFacesVectors(N)] :
        N \in {{}, {1}} }

\* Three triangles (0,1,2), (3,4,5), (6,7,8) glued 1-4, 2-6, 3-7 with the
\* edges 0, 5 and 8 folded: a half-translation surface.  Whatever signs the
\* faces carry, some glued pair has vector(e) = vector(E).
ThreeFaces == Fn(<<1, 2, 0, 4, 5, 3, 7, 8, 6>>)
ThreeFacesEp == Fn(<<0, 4, 6, 7, 1, 5, 2, 3, 8>>)

ThreeFacesBase ==
    Fn(<<<<1, 2>>, <<-2, -1>>, <<1, -1>>, <<-1, -2>>, <<2, 1>>, <<-1, 1>>,
         <<-1, 1>>, <<-1, -2>>, <<2, 1>>>>)

ThreeFacesVectors(N) ==
    [e \in DOMAIN ThreeFaces |->
        IF SetMin(FaceOf(ThreeFaces, e)) \in N
        THEN Neg(ThreeFacesBase[e]) ELSE ThreeFacesBase[e]]

ThreeFaceInputs ==
    { [fp |-> ThreeFaces, ep |-> ThreeFacesEp, vectors |-> ThreeFacesVectors(N)] :
        N \in {{}, {6}} }

\* Four triangles in a row: (3,4,5) and (6,7,8) glued 3-6 and 4-7 into a
\* cylinder, closed at its two ends by (0,1,2), glued 0-5, and (9,10,11),
\* glued 8-9; the edges 1, 2, 10 and 11 are folded.
ChainFaces == Fn(<<1, 2, 0, 4, 5, 3, 7, 8, 6, 10, 11, 9>>)
ChainEp == Fn(<<5, 1, 2, 6, 7, 0, 3, 4, 9, 8, 10, 11>>)

ChainVectors ==
    Fn(<<<<-1, 1>>, <<-1, -2>>, <<2, 1>>, <<1, 2>>, <<-2, -1>>, <<1, -1>>,
         <<-1, -2>>, <<2, 1>>, <<-1, 1>>, <<1, -1>>, <<1, 2>>, <<-2, -1>>>>)

ChainInputs == { [fp |-> ChainFaces, ep |-> ChainEp, vectors |-> ChainVectors] }

LayoutInputs == TwoFaceInputs \cup ThreeFaceInputs \cup FourFaceInputs \cup ChainInputs

\* FlatVeeringTriangulationLayout.__init__ for a list of n vectors over a field.
LayoutNew(in) ==
    LET o == [fp |-> in.fp, ep |-> in.ep,
              colouring |-> [e \in DOMAIN in.fp |-> vec_slope(in.vectors[e])],
              vectors |-> in.vectors, pos |-> None]
    IN Result(o, _check(o))

-----------------------------------------------------------------------------
(* Calls on the layout object *)

\* An exception of _check or a RuntimeError leaves an object whose invariants
\* are gone; it is not used again.  A call refused before it changed anything
\* leaves the object usable.
Usable ==
    /\ pc = "idle"
    /\ err \in {"none", "ValueError: not flippable", "TypeError: no positions"}
    /\ nops < MaxOps

InBounds(o) ==
    \A e \in DOMAIN o.vectors :
        Abs(o.vectors[e][1]) <= MaxCoord /\ Abs(o.vectors[e][2]) <= MaxCoord

Install(o) ==
    /\ fp' = o.fp
    /\ ep' = o.ep
    /\ colouring' = o.colouring
    /\ vectors' = o.vectors
    /\ pos' = o.pos

Called(op, arg) ==
    /\ last' = [op |-> op, arg |-> arg]
    /\ pre' = self
    /\ nops' = nops + 1

\* The factors (sx, sy) a caller passes: positive ones ("apply Teichmueller
\* flow"), chosen so that integral vectors stay integral.
Scalings == {<<2, 1>>, <<1, 2>>}

XYScaling(sx, sy) ==
    /\ Usable
    /\ InBounds(xy_scaling(self, sx, sy))
    /\ Install(xy_scaling(self, sx, sy))
    /\ err' = "none"
    /\ Called("xy_scaling", <<sx, sy>>)
    /\ UNCHANGED <<pc, face_seen, wait, q, y, bbox, y_space, flat, sq, ret>>

GlueSideBySide(a) ==
    /\ Usable
    /\ IF pos = None
       THEN Install(self) /\ err' = "TypeError: no positions"
       ELSE LET r == glue_side_by_side(self, a)
            IN Install(r.obj) /\ err' = r.err
    /\ Called("glue_side_by_side", <<a>>)
    /\ UNCHANGED <<pc, face_seen, wait, q, y, bbox, y_space, flat, sq, ret>>

Flip(e) ==
    /\ Usable
    /\ LET r == flip(self, e)
       IN /\ InBounds(r.obj)
          /\ Install(r.obj)
          /\ err' = r.err
    /\ Called("flip", <<e>>)
    /\ UNCHANGED <<pc, face_seen, wait, q, y, bbox, y_space, flat, sq, ret>>

\* The lists of half-edges a caller may pass as one cylinder.
\* Consecutive half-edges of a cylinder: the next one lies in the face across
\* the previous one.  Whether the sequence closes up is not required here.
IsChain(c) ==
    \A i \in 1..(Len(c) - 1) : c[i + 1] \in FaceOf(fp, ep[c[i]])

CylinderInputs ==
    UNION { {c \in [1..k -> DOMAIN fp] : IsChain(c)} : k \in 1..MaxCylLen }

CylinderLists ==
    UNION { [1..k -> CylinderInputs] : k \in 0..MaxCyls }

\* set_pos up to the end of the cylinder phase and its check.
SetPosBegin(cylinders, gap) ==
    /\ Usable
    /\ LET nf == num_faces(fp)
           st0 == CylState(vectors, [e \in DOMAIN fp |-> None],
                           [i \in 0..(nf - 1) |-> FALSE], BBox(0, 0, 0, 0), 0, "none")
           st == Cylinders(fp, ep, st0, cylinders, 1, gap)
       IN /\ vectors' = st.vectors
          /\ pos' = st.pos
          /\ face_seen' = st.face_seen
          /\ y' = st.y
          /\ bbox' = st.bbox
          /\ IF st.err # "none"
             THEN err' = st.err /\ pc' = "idle"
             ELSE IF CylinderBadlySet(fp, st.pos, st.face_seen)
             THEN err' = "RuntimeError: cylinder badly set" /\ pc' = "idle"
             ELSE err' = "none" /\ pc' = "forest"
    /\ y_space' = gap
    /\ wait' = {}
    /\ q' = <<>>
    /\ Called("set_pos", <<cylinders, gap>>)
    /\ UNCHANGED <<fp, ep, colouring, flat, sq, ret>>

\* The search for a root taken from the other end: the highest unseen face.
LastUnseen(seen) ==
    CHOOSE i \in DOMAIN seen : seen[i] = FALSE /\ \A j \in DOMAIN seen : seen[j] = FALSE => j <= i

\* "for start in range(nf): if face_seen[start] is False: break"
FirstUnseen(seen) == SetMin({i \in DOMAIN seen : seen[i] = FALSE})

\* A new tree: choose the root and place it.
SetPosRoot ==
    /\ pc = "forest"
    /\ \E i \in DOMAIN face_seen : face_seen[i] = FALSE
    /\ LET start == FirstUnseen(face_seen)
           r == RootPlace(vectors, pos, faces(fp)[start])
       IN /\ pos' = r.pos
          /\ bbox' = r.bbox
          /\ wait' = {start}
          /\ q' = <<start>>
          /\ face_seen' = [face_seen EXCEPT ![start] = TRUE]
    /\ pc' = "tree"
    /\ UNCHANGED <<fp, ep, colouring, vectors, y, y_space, err, last, pre, nops,
                   flat, sq, ret>>

\* One iteration of "while wait": pop a face, visit its edges in some order.
SetPosPop(t, t_edges) ==
    /\ pc = "tree"
    /\ t \in wait
    /\ \E st \in {ForestVisit(fp, ep, TreeState(vectors, pos, face_seen, wait \ {t},
                                                  q, bbox, "none"), t, t_edges, 1)} :
          /\ vectors' = st.vectors
          /\ pos' = st.pos
          /\ face_seen' = st.face_seen
          /\ wait' = st.wait
          /\ q' = st.q
          /\ bbox' = st.bbox
          /\ err' = st.err
          /\ pc' = IF st.err = "none" THEN "tree" ELSE "idle"
    /\ UNCHANGED <<fp, ep, colouring, y, y_space, last, pre, nops, flat, sq, ret>>

\* The tree is complete: translate it and advance the height.
SetPosTranslate ==
    /\ pc = "tree"
    /\ wait = {}
    /\ pos' = TreeTranslate(fp, pos, q, 1, <<0 - bbox.xmin, y - bbox.ymin>>)
    /\ y' = y + (bbox.ymax - bbox.ymin) + y_space
    /\ pc' = "forest"
    /\ UNCHANGED <<fp, ep, colouring, vectors, face_seen, wait, q, bbox, y_space,
                   err, last, pre, nops, flat, sq, ret>>

\* Every face is seen: the final check, and set_pos returns.
SetPosEnd ==
    /\ pc = "forest"
    /\ \A i \in DOMAIN face_seen : face_seen[i] = TRUE
    /\ err' = IF \E e \in DOMAIN pos : pos[e] = None
              THEN "RuntimeError: pos not set properly" ELSE "none"
    /\ pc' = "idle"
    /\ UNCHANGED <<fp, ep, colouring, vectors, pos, face_seen, wait, q, y, bbox,
                   y_space, last, pre, nops, flat, sq, ret>>

SetPosStep ==
    \/ SetPosRoot
    \/ \E t \in wait : \E t_edges \in Shuffles(faces(fp)[t]) : SetPosPop(t, t_edges)
    \/ SetPosTranslate
    \/ SetPosEnd

Init ==
    /\ \E in \in LayoutInputs :
          /\ fp = in.fp
          /\ ep = in.ep
          /\ colouring = LayoutNew(in).obj.colouring
          /\ vectors = LayoutNew(in).obj.vectors
          /\ pos = LayoutNew(in).obj.pos
          /\ err = LayoutNew(in).err
          /\ pre = LayoutNew(in).obj
    /\ pc = "idle"
    /\ face_seen = <<>>
    /\ wait = {}
    /\ q = <<>>
    /\ y = 0
    /\ bbox = BBox(0, 0, 0, 0)
    /\ y_space = 0
    /\ last = [op |-> "__init__", arg |-> <<>>]
    /\ nops = 0
    /\ flat = None
    /\ sq = None
    /\ ret = None

\* Any sequence of calls on a layout; set_pos is called without cylinders.
Next ==
    \/ \E k \in Scalings : XYScaling(k[1], k[2])
    \/ \E a \in DOMAIN fp : GlueSideBySide(a)
    \/ \E e \in DOMAIN fp : Flip(e)
    \/ \E gap \in 1..MaxGap : SetPosBegin(<<>>, gap)
    \/ SetPosStep

Spec == Init /\ [][Next]_vars

\* Calls of set_pos, with and without cylinders, on a layout.
SetPosNext ==
    \/ /\ nops < MaxSetPos
       /\ \E cylinders \in CylinderLists, gap \in 1..MaxGap : SetPosBegin(cylinders, gap)
    \/ SetPosStep

SetPosSpec == Init /\ [][SetPosNext]_vars

\* Calls of set_pos without cylinders.
ForestNext ==
    \/ /\ nops < MaxSetPos
       /\ \E gap \in 1..MaxGap : SetPosBegin(<<>>, gap)
    \/ SetPosStep

\* set_pos is one synchronous call: once started its loops run to the end.
ForestFairSpec == Init /\ [][ForestNext]_vars /\ WF_vars(SetPosStep)

-----------------------------------------------------------------------------
(* Properties of the layout *)

\* The half-edge a flip or glue_side_by_side call was given.
LastEdge == last.arg[1]

WasForwardFlippable ==
    is_forward_flippable(pre.fp, pre.ep, pre.colouring, LastEdge)

\* A cylinder in the sense of the cylinder phase: cyclically, the next
\* half-edge lies in the face across the previous one.
ProperCylinder(c) ==
    /\ IsChain(c)
    /\ c[1] \in FaceOf(fp, ep[c[Len(c)]])

ProperCylinders(cs) == \A k \in 1..Len(cs) : ProperCylinder(cs[k])

SetPosReturned == pc = "idle" /\ last.op = "set_pos" /\ err = "none"

\* C1 (as claimed): the check passes after construction, and every flip of a
\* forward-flippable half-edge of a layout that passes the check returns
\* without error and leaves a layout that passes the check.
C1_FlipKeepsCheck ==
    /\ last.op = "__init__" => err = "none" /\ _check(self) = "none"
    /\ (last.op = "flip" /\ _check(pre) = "none" /\ WasForwardFlippable)
          => err = "none" /\ _check(self) = "none"

C3_ReturnedImpliesChecked ==
    (pc = "idle" /\ err = "none") => _check(self) = "none"

\* C4: set_pos called without cylinders terminates: from the start of the
\* forest phase it leads to a return without error, every face seen and every
\* corner placed.
C4_SetPosTerminates ==
    (pc = "forest" /\ last.arg[1] = <<>>) ~>
        (/\ SetPosReturned
         /\ \A i \in DOMAIN face_seen : face_seen[i] = TRUE
         /\ \A e \in DOMAIN fp : pos[e] # None)

\* set_pos without cylinders has returned on the four-triangle surface.
C4_Witness ==
    /\ SetPosReturned
    /\ last.arg[1] = <<>>
    /\ num_faces(fp) = 4
    /\ Len(q) = 4
    /\ \A e \in DOMAIN fp : pos[e] # None

\* C5: flip(e) on a half-edge that is not forward flippable raises and leaves
\* the triangulation, the vectors, the colours and the positions as they were.
C5_NotFlippableUnchanged ==
    (last.op = "flip" /\ ~WasForwardFlippable) =>
        /\ err = "ValueError: not flippable"
        /\ self = pre

\* A refused flip on a layout whose positions are set.
C5_Witness ==
    /\ last.op = "flip"
    /\ ~WasForwardFlippable
    /\ err = "ValueError: not flippable"
    /\ pos # None

\* C6: a flip(e) that returned changed no colour except those of e and E, no
\* vector outside the two triangles of e and E, and no slope colour of any
\* half-edge other than e and E.
C6_FlipFrame ==
    (last.op = "flip" /\ err = "none") =>
        LET e == LastEdge
            E == pre.ep[e]
        IN /\ \A h \in DOMAIN fp \ {e, E} : colouring[h] = pre.colouring[h]
           /\ \A h \in DOMAIN fp \ (FaceOf(pre.fp, e) \cup FaceOf(pre.fp, E)) :
                  vectors[h] = pre.vectors[h]
           /\ \A h \in DOMAIN fp \ {e, E} :
                  vec_slope(vectors[h]) = vec_slope(pre.vectors[h])

\* A flip returned after negating the vectors of the face of E, on a surface
\* with a triangle that is adjacent to neither side.
C6_Witness ==
    /\ last.op = "flip"
    /\ err = "none"
    /\ pre.pos # None
    /\ vectors[pre.fp[pre.ep[LastEdge]]] = Neg(pre.vectors[pre.fp[pre.ep[LastEdge]]])
    /\ DOMAIN fp \ (FaceOf(pre.fp, LastEdge) \cup FaceOf(pre.fp, pre.ep[LastEdge])) # {}

-----------------------------------------------------------------------------
(* FlatVeeringTriangulation.__init__ *)

\* Triangulation.num_edges(): the number of orbits of ep.
num_edges(p) == Cardinality({e \in DOMAIN p : e <= p[e]})

\* The signs (one per face) under which every glued pair is a translation:
\* s(face(e)) * v(e) = -(s(face(E)) * v(E)).
Orientations(f, p, hol) ==
    {s \in [FaceRoots(f) -> {1, -1}] :
        \A e \in DOMAIN f :
            Scale(s[SetMin(FaceOf(f, e))], hol[e])
                = Neg(Scale(s[SetMin(FaceOf(f, p[e]))], hol[p[e]]))}

\* VeeringTriangulation.is_abelian(certificate=True): the certificates it can
\* return, one boolean per half-edge, True for "x-coordinate positive".  The
\* half-edge 0 is oriented to the right, opposite half-edges get opposite
\* values, and a half-edge that is not vertical gets the value of its vector
\* under a coherent orientation.  The empty set: not Abelian.
is_abelian(f, p, hol) ==
    {cert \in [DOMAIN f -> BOOLEAN] :
        /\ cert[0] = TRUE
        /\ \A e \in DOMAIN f : cert[p[e]] = ~cert[e]
        /\ \E s \in Orientations(f, p, hol) :
              \A e \in DOMAIN f :
                  hol[e][1] # 0 => cert[e] = (s[SetMin(FaceOf(f, e))] * hol[e][1] > 0)}

\* One iteration of "for e, right in enumerate(cert)".
FixSign(p, hol, e, right) ==
    LET E == p[e]
        h1 == IF right # (hol[e][1] > 0) THEN [hol EXCEPT ![e] = Neg(hol[e])] ELSE hol
    IN IF right # (h1[E][1] < 0) THEN [h1 EXCEPT ![E] = Neg(h1[E])] ELSE h1

RECURSIVE FixSigns(_, _, _, _)
FixSigns(p, hol, cert, e) ==
    IF e \notin DOMAIN cert THEN hol
    ELSE FixSigns(p, FixSign(p, hol, e, cert[e]), cert, e + 1)

\* FlatVeeringTriangulation._check: "none", or the exception raised.
FlatVeeringTriangulation_check(o) ==
    LET v == [fp |-> o.fp, ep |-> o.ep, vectors |-> o.holonomies]
    IN IF ~TriangulationCheck(o.fp, o.ep) THEN "ValueError: triangulation"
       ELSE IF ~PairingOK(v) THEN "ValueError: ep"
       ELSE IF FacesError(v) # "none" THEN FacesError(v)
       ELSE IF /\ o.translation
               /\ \E e \in 0..(num_edges(o.ep) - 1) :
                     o.holonomies[e] # Neg(o.holonomies[o.ep[e]])
       THEN "AssertionError"
       ELSE "none"

\* The constructor for a triangulation given by (fp, ep), one vector per
\* half-edge over a field, and the certificate is_abelian returned (None when
\* the surface is not Abelian).
FlatNew(f, p, holonomies, cert, check) ==
    LET o == [fp |-> f, ep |-> p,
              holonomies |-> IF cert # None THEN FixSigns(p, holonomies, cert, 0)
                             ELSE holonomies,
              translation |-> cert # None]
    IN Result(o, IF check THEN FlatVeeringTriangulation_check(o) ELSE "none")

\* Positively oriented triangles: two without and one with a vertical side,
\* one with a horizontal side.
FlatTriangles ==
    BaseTriangles \cup
    { <<<<1, -1>>, <<0, 2>>, <<-1, -1>>>>,
      <<<<2, 0>>, <<-1, 1>>, <<-1, -1>>>>,
      <<<<1, -2>>, <<1, 3>>, <<-2, -1>>>> }

Signs == {1, -1}

\* What the constructor is called with: the triangulation, the vectors, the
\* check flag.  base: the same vectors with no face negated.
FlatInputs ==
    { [fp |-> TwoFaces, ep |-> p, holonomies |-> TwoFaceVectors(T, s0, s1),
       base |-> TwoFaceVectors(T, 1, 1), check |-> c] :
        p \in {TorusEp, FoldedEp}, T \in FlatTriangles,
        s0 \in Signs, s1 \in Signs, c \in BOOLEAN }
    \cup
    { [fp |-> FourFaces, ep |-> FourFacesEp, holonomies |-> FourFacesVectors(N),
       base |-> FourFacesBase, check |-> TRUE] :
        N \in SUBSET FaceRoots(FourFaces) }

FlatInit ==
    /\ flat \in { [pc |-> "call", in |-> i, cert |-> None, obj |-> None,
                   err |-> "none"] : i \in FlatInputs }
    /\ fp = <<>> /\ ep = <<>> /\ colouring = <<>> /\ vectors = <<>> /\ pos = None
    /\ pc = "idle" /\ face_seen = <<>> /\ wait = {} /\ q = <<>> /\ y = 0
    /\ bbox = BBox(0, 0, 0, 0) /\ y_space = 0 /\ err = "none"
    /\ last = [op |-> "none", arg |-> <<>>] /\ pre = None /\ nops = 0
    /\ sq = None /\ ret = None

\* FlatVeeringTriangulation(triangulation, holonomies, check=...)
FlatConstruct ==
    /\ flat.pc = "call"
    /\ LET in == flat.in
           certs == is_abelian(in.fp, in.ep, in.holonomies)
       IN \E cert \in (IF certs = {} THEN {None} ELSE certs) :
             \E r \in {FlatNew(in.fp, in.ep, in.holonomies, cert, in.check)} :
                flat' = [flat EXCEPT !.pc = "done", !.cert = cert,
                                     !.obj = r.obj, !.err = r.err]
    /\ UNCHANGED <<layoutvars, sq, ret>>

FlatNext == FlatConstruct

FlatSpec == FlatInit /\ [][FlatNext]_vars

\* C7 (as claimed): after a construction that found the translation
\* certificate, construction has passed, vector(E) = -vector(e) for every
\* half-edge e, every triangle sums to zero, and the stored vectors are those
\* the input without negated triangles gives.
C7_TranslationCanonical ==
    (flat.pc = "done" /\ flat.obj.translation) =>
        LET o == flat.obj
        IN /\ flat.err = "none"
           /\ \A e \in DOMAIN o.fp : o.holonomies[o.ep[e]] = Neg(o.holonomies[e])
           /\ ZeroSumOK([fp |-> o.fp, ep |-> o.ep, vectors |-> o.holonomies])
           /\ o.holonomies = FixSigns(o.ep, flat.in.base, flat.cert, 0)

-----------------------------------------------------------------------------
(* SquaredTriangulation: values *)

HORIZONTAL == "HORIZONTAL"
VERTICAL == "VERTICAL"

\* The index of the edge of a half-edge: the smaller of its two half-edges.
norm(p, h) == Min2(h, p[h])

\* triangulation.indices
indices(p) == {norm(p, h) : h \in DOMAIN p}

\* triangulation.square_about_edge(e): the four sides of the quadrilateral
\* around e, as half-edges.
square_about_edge(f, p, e) == <<f[e], f[f[e]], f[p[e]], f[f[p[e]]]>>

\* The colours of the four sides.
SquareColours(f, p, col, e) ==
    [i \in 1..4 |-> col[norm(p, square_about_edge(f, p, e)[i])]]

\* ColouredTriangulation.is_flippable: e lies between two distinct triangles
\* and the sides of its quadrilateral alternate in colour.
is_flippable(f, p, col, e) ==
    /\ p[e] \notin FaceOf(f, e)
    /\ LET c == SquareColours(f, p, col, e)
       IN c[1] = c[3] /\ c[2] = c[4] /\ c[1] # c[2]

\* ColouredTriangulation.mostly_sloped_edges(direction).
mostly_sloped_edges(f, p, col, direction) ==
    {e \in indices(p) :
        /\ is_flippable(f, p, col, e)
        /\ SquareColours(f, p, col, e)[1] = (IF direction = HORIZONTAL THEN RED ELSE BLUE)}

\* ColouredTriangulation.flip_edge(e, colour): a new coloured triangulation,
\* the receiver is left as it is.
flip_edge(o, e, colour) ==
    IF ~is_flippable(o.fp, o.ep, o.colouring, e)
    THEN Result(o, "AssertionError")
    ELSE Result([fp |-> TriangulationFlip(o.fp, o.ep, e), ep |-> o.ep,
                 colouring |-> [o.colouring EXCEPT ![e] = colour]], "none")

\* UnionFind: the class of the items in C under the unions made (links).
RECURSIVE UnionFindClass(_, _)
UnionFindClass(C, links) ==
    LET D == C \cup {l[2] : l \in {k \in links : k[1] \in C}}
                \cup {l[1] : l \in {k \in links : k[2] \in C}}
    IN IF D = C THEN C ELSE UnionFindClass(D, links)

\* A list of the sets in SS; the order of a UnionFind's classes is taken to
\* be that of their smallest members.
ClassList(SS) ==
    [i \in 1..Cardinality(SS) |->
        CHOOSE c \in SS : Cardinality({d \in SS : SetMin(d) < SetMin(c)}) = i - 1]

Range(sq_) == {sq_[i] : i \in DOMAIN sq_}

\* F applied to the value of x, x evaluated once.
Eval(x, F(_)) == CHOOSE r \in {F(v) : v \in {x}} : TRUE

\* The unions made for the diagonals: each diagonal with the sides of its
\* square that have the distinguished colour.
Unions(f, p, col, diagonals, colour) ==
    UNION { {<<d, norm(p, square_about_edge(f, p, d)[i])>> :
                i \in {j \in 1..4 : SquareColours(f, p, col, d)[j] = colour}} :
            d \in diagonals }

\* curves without the test on the size: every class of the UnionFind.
CurvesOfAnySize(p, links) ==
    ClassList({UnionFindClass({x}, links) : x \in indices(p)})

\* "self.curves = [cls for cls in classes if len(cls) > 1]"
Curves(p, links) ==
    ClassList({c \in {UnionFindClass({x}, links) : x \in indices(p)} :
                  Cardinality(c) > 1})

\* SquaredTriangulation.__init__(triangulation, colouring, direction)
SquaredTriangulation(f, p, col, direction) ==
    Eval(mostly_sloped_edges(f, p, col, direction), LAMBDA diagonals :
        IF diagonals = {} THEN Result(None, "IndexError")
        ELSE IF \E d \in diagonals : col[d] # col[SetMin(diagonals)]
        THEN Result(None, "AssertionError")
        ELSE Eval(Unions(f, p, col, diagonals, col[SetMin(diagonals)]), LAMBDA links :
                Result([fp |-> f, ep |-> p, colouring |-> col,
                        diagonals |-> diagonals, colour |-> col[SetMin(diagonals)],
                        curves |-> Curves(p, links)], "none")))

-----------------------------------------------------------------------------
(* SquaredTriangulation: twist, swap, neighbours *)

\* The order in which "for edge in <set>" visits a set: ascending or
\* descending (every order, for the sets of at most two diagonals met here).
RECURSIVE SetOrder(_, _)
SetOrder(S, rev) ==
    IF S = {} THEN <<>>
    ELSE LET x == IF rev THEN CHOOSE m \in S : \A z \in S : z <= m ELSE SetMin(S)
         IN <<x>> \o SetOrder(S \ {x}, rev)

\* The loop with every flip made on self: "tmp = self.flip_edge(edge, colour)".
RECURSIVE FlipEachOfSelf(_, _, _, _, _)
FlipEachOfSelf(tmp, edges, i, colour, flipped) ==
    IF i > Len(edges) THEN [obj |-> tmp, err |-> "none", flipped |-> flipped]
    ELSE Eval(flip_edge(tmp, edges[i], colour), LAMBDA r :
            IF r.err # "none"
            THEN [obj |-> tmp, err |-> r.err, flipped |-> flipped]
            ELSE IF i = Len(edges)
            THEN [obj |-> r.obj, err |-> "none", flipped |-> Append(flipped, edges[i])]
            ELSE FlipEachOfSelf(tmp, edges, i + 1, colour, Append(flipped, edges[i])))

\* "tmp = self; for edge in edges: tmp = tmp.flip_edge(edge, colour)".
\* flipped: the calls of flip_edge made, in order.
RECURSIVE FlipEach(_, _, _, _, _)
FlipEach(tmp, edges, i, colour, flipped) ==
    IF i > Len(edges) THEN [obj |-> tmp, err |-> "none", flipped |-> flipped]
    ELSE Eval(flip_edge(tmp, edges[i], colour), LAMBDA r :
            IF r.err # "none"
            THEN [obj |-> tmp, err |-> r.err, flipped |-> flipped]
            ELSE FlipEach(r.obj, edges, i + 1, colour, Append(flipped, edges[i])))

\* What a move leaves and returns: self after the call, the structure
\* returned (None when it raised), the exception, the flips made.
Moved(S, out, e, flipped) == [self |-> S, out |-> out, err |-> e, flipped |-> flipped]

\* The move built from the flips of "edges" with "colour".
Rebuild(S, edges, colour) ==
    Eval(FlipEach(S, edges, 1, colour, <<>>), LAMBDA r :
        IF r.err # "none" THEN Moved(S, None, r.err, r.flipped)
        ELSE Eval(SquaredTriangulation(r.obj.fp, r.obj.ep, r.obj.colouring, HORIZONTAL),
                  LAMBDA n : Moved(S, n.obj, n.err, r.flipped)))

\* twist that works on self itself instead of on new structures.
twist_in_place(S, curve, rev) ==
    IF curve \notin Range(S.curves) THEN Moved(S, None, "AssertionError", <<>>)
    ELSE Eval(Rebuild(S, SetOrder(S.diagonals \cap curve, rev), S.colour), LAMBDA m :
            IF m.out = None THEN m
            ELSE Moved([S EXCEPT !.fp = m.out.fp, !.colouring = m.out.colouring],
                       m.out, m.err, m.flipped))

\* twist that flips every diagonal, not only those of the curve.
twist_all_diagonals(S, curve, rev) ==
    IF curve \notin Range(S.curves) THEN Moved(S, None, "AssertionError", <<>>)
    ELSE Rebuild(S, SetOrder(S.diagonals, rev), S.colour)

twist(S, curve, rev) ==
    IF curve \notin Range(S.curves) THEN Moved(S, None, "AssertionError", <<>>)
    ELSE Rebuild(S, SetOrder(S.diagonals \cap curve, rev), S.colour)

\* swap that gives the flipped edges the distinguished colour again.
swap_same_colour(S, rev) ==
    Rebuild(S, SetOrder(S.diagonals, rev), S.colour)

swap(S, rev) ==
    Rebuild(S, SetOrder(S.diagonals, rev), IF S.colour = BLUE THEN RED ELSE BLUE)

\* "[self.twist(curve) for curve in self.curves] + [self.swap()]": the calls
\* made, in order, each on what the call before left of self, up to the first
\* that raises.
RECURSIVE NeighbourCalls(_, _, _, _)
NeighbourCalls(S, i, rev, acc) ==
    IF i > Len(S.curves) + 1 THEN acc
    ELSE Eval(IF i <= Len(S.curves) THEN twist(S, S.curves[i], rev) ELSE swap(S, rev),
              LAMBDA m : IF m.err # "none" THEN Append(acc, m)
                         ELSE NeighbourCalls(m.self, i + 1, rev, Append(acc, m)))

neighbours(S, rev) ==
    Eval(NeighbourCalls(S, 1, rev, <<>>), LAMBDA calls :
        [self |-> calls[Len(calls)].self,
         out |-> IF calls[Len(calls)].err = "none"
                 THEN [i \in DOMAIN calls |-> calls[i].out] ELSE None,
         err |-> calls[Len(calls)].err,
         flipped |-> calls[Len(calls)].flipped])

-----------------------------------------------------------------------------
(* SquaredTriangulation: calls *)

MaxMoves == 3

\* Two unit squares side by side on a torus, each cut by its diagonal: the
\* faces (0,~1,~5), (1,2,~0), (3,~4,~2), (4,5,~3) with ~e = 11-e.
TwoSquares == Fn(<<10, 2, 11, 7, 5, 8, 0, 9, 4, 3, 6, 1>>)

\* The structures the caller starts from: the one of the main block, and the
\* two squares with diagonals and horizontal sides RED, vertical sides BLUE.
SquaredInputs ==
    { [fp |-> FourFaces, ep |-> FourFacesEp,
       colouring |-> Fn(<<BLUE, BLUE, RED, BLUE, RED, BLUE>>)],
      [fp |-> TwoSquares, ep |-> FourFacesEp,
       colouring |-> Fn(<<RED, RED, BLUE, RED, RED, BLUE>>)] }

\* The curves a caller passes to twist: the detected ones and one that is not.
CurveInputs == Range(sq.curves) \cup {{}}

SqInit ==
    /\ \E in \in SquaredInputs :
          sq = SquaredTriangulation(in.fp, in.ep, in.colouring, HORIZONTAL).obj
    /\ ret = [op |-> "__init__", arg |-> <<>>, pre |-> None, out |-> None,
              err |-> "none", flipped |-> <<>>, n |-> 0, from |-> None]
    /\ flat = None
    /\ fp = <<>> /\ ep = <<>> /\ colouring = <<>> /\ vectors = <<>> /\ pos = None
    /\ pc = "idle" /\ face_seen = <<>> /\ wait = {} /\ q = <<>> /\ y = 0
    /\ bbox = BBox(0, 0, 0, 0) /\ y_space = 0 /\ err = "none"
    /\ last = [op |-> "none", arg |-> <<>>] /\ pre = None /\ nops = 0

Returned(op, arg, m) ==
    /\ sq' = m.self
    /\ ret' = [op |-> op, arg |-> arg, pre |-> sq, out |-> m.out, err |-> m.err,
               flipped |-> m.flipped, n |-> ret.n + 1, from |-> ret.from]
    /\ UNCHANGED <<layoutvars, flat>>

Twist(curve, rev) ==
    /\ ret.n < MaxMoves
    /\ \E m \in {twist(sq, curve, rev)} : Returned("twist", <<curve, rev>>, m)

Swap(rev) ==
    /\ ret.n < MaxMoves
    /\ \E m \in {swap(sq, rev)} : Returned("swap", <<rev>>, m)

Neighbours(rev) ==
    /\ ret.n < MaxMoves
    /\ \E m \in {neighbours(sq, rev)} : Returned("neighbours", <<rev>>, m)

\* The caller goes on from the structure a twist or a swap returned; "from"
\* keeps the move that made it and the structure that move was called on.
Continue ==
    /\ ret.op \in {"twist", "swap"}
    /\ ret.err = "none"
    /\ sq' = ret.out
    /\ ret' = [ret EXCEPT !.op = "continue", !.pre = None, !.out = None,
                          !.flipped = <<>>,
                          !.from = [op |-> ret.op, pre |-> ret.pre]]
    /\ UNCHANGED <<layoutvars, flat>>

SqNext ==
    \/ \E curve \in CurveInputs, rev \in BOOLEAN : Twist(curve, rev)
    \/ \E rev \in BOOLEAN : Swap(rev)
    \/ \E rev \in BOOLEAN : Neighbours(rev)
    \/ Continue

SqSpec == SqInit /\ [][SqNext]_vars

-----------------------------------------------------------------------------
(* Properties of the moves *)

\* The half-edges of the two triangles next to an edge of F.
Touched(S, F) ==
    UNION { FaceOf(S.fp, e) \cup FaceOf(S.fp, S.ep[e]) : e \in F }

\* What a move that flipped exactly the edges F, each once, and gave them
\* the colour col returned: the flips made, the colours, the triangles.
FlippedExactly(S, F, col) ==
    /\ Len(ret.flipped) = Cardinality(F)
    /\ Range(ret.flipped) = F
    /\ \A e \in F : ret.out.colouring[e] = col
    /\ \A e \in indices(S.ep) \ F : ret.out.colouring[e] = S.colouring[e]
    /\ \A e \in F : ret.out.fp[e] = S.fp[S.fp[e]]
    /\ \A h \in DOMAIN S.fp \ Touched(S, F) : ret.out.fp[h] = S.fp[h]

C9_TwistFlips ==
    (ret.op = "twist" /\ ret.err = "none") =>
        FlippedExactly(ret.pre, ret.pre.diagonals \cap ret.arg[1], ret.pre.colour)

\* A twist about one of two curves: some diagonal is flipped, another is not.
C9_Witness ==
    /\ ret.op = "twist"
    /\ ret.err = "none"
    /\ ret.pre.diagonals \cap ret.arg[1] # {}
    /\ ret.pre.diagonals \ ret.arg[1] # {}
    /\ Range(ret.flipped) = ret.pre.diagonals \cap ret.arg[1]

\* C10: a swap that returned has flipped every diagonal once and no other
\* edge, has given each the colour other than the distinguished one, and has
\* kept the colour of every other edge.
C10_SwapFlips ==
    (ret.op = "swap" /\ ret.err = "none") =>
        FlippedExactly(ret.pre, ret.pre.diagonals,
                       IF ret.pre.colour = BLUE THEN RED ELSE BLUE)

\* A swap of a structure whose distinguished colour is RED has returned.
C10_Witness ==
    /\ ret.op = "swap"
    /\ ret.err = "none"
    /\ ret.pre.colour = RED
    /\ Cardinality(Range(ret.flipped)) = 2
    /\ \A e \in ret.pre.diagonals : ret.out.colouring[e] = BLUE

-----------------------------------------------------------------------------
(* swap twice *)

\* The pairs a relabelling of half-edges that contains m must contain: it
\* commutes with the face and the edge permutations.
RECURSIVE RelabelClosure(_, _, _)
RelabelClosure(S, T, m) ==
    LET n == m \cup {<<S.fp[x[1]], T.fp[x[2]]>> : x \in m}
               \cup {<<S.ep[x[1]], T.ep[x[2]]>> : x \in m}
    IN IF n = m THEN m ELSE RelabelClosure(S, T, n)

\* m is a relabelling of the half-edges of S into those of T that carries
\* the colouring and the diagonals of S to those of T.
IsRelabelling(S, T, m) ==
    /\ Cardinality(m) = Cardinality(DOMAIN S.fp)
    /\ {x[1] : x \in m} = DOMAIN S.fp
    /\ {x[2] : x \in m} = DOMAIN T.fp
    /\ \A x \in m :
          /\ S.colouring[norm(S.ep, x[1])] = T.colouring[norm(T.ep, x[2])]
          /\ (norm(S.ep, x[1]) \in S.diagonals) <=> (norm(T.ep, x[2]) \in T.diagonals)

\* S and T are the same structure up to relabelling of half-edges.
SameUpToRelabelling(S, T) ==
    /\ S.colour = T.colour
    /\ \E h \in DOMAIN T.fp :
          \E m \in {RelabelClosure(S, T, {<<0, h>>})} : IsRelabelling(S, T, m)

\* C11: a swap that returned, made on the structure a swap returned, gives
\* the structure the first swap was called on, up to relabelling of
\* half-edges.
C11_SwapTwice ==
    (ret.op = "swap" /\ ret.err = "none" /\ ret.from # None /\ ret.from.op = "swap") =>
        SameUpToRelabelling(ret.from.pre, ret.out)

-----------------------------------------------------------------------------
(* The constructors: base ring of the vectors, one vector per edge *)

\* The parents of the vectors supplied: the integers, the rationals.  A list
\* of vectors is its coordinates (integers here, as elements of the parent)
\* and its parent K; change_ring keeps the coordinates and changes the parent.
Rings == {"ZZ", "QQ"}
_Fields == {"QQ"}
fraction_field(K) == IF K = "ZZ" THEN "QQ" ELSE K

\* "for e in range(m): E = ep[e]; if e != E and E < m: raise ValueError"
StandardForm(p) ==
    \A e \in 0..(num_edges(p) - 1) : p[e] = e \/ p[e] >= num_edges(p)

\* One vector per half-edge from one per edge, as both constructors mean it:
\* half-edge e >= m gets the vector of ep[e].
ExtendByEp(p, vs) ==
    [e \in DOMAIN p |-> IF e < num_edges(p) THEN vs[e] ELSE vs[p[e]]]

Constructed(o, K, e) == [obj |-> o, K |-> K, err |-> e]

\* FlatVeeringTriangulationLayout.__init__(triangles, vectors) for a list vs
\* with parent K.
FlatVeeringTriangulationLayout(f, p, vs, K) ==
    LET n == num_half_edges(p)
        m == num_edges(p)
        len == Cardinality(DOMAIN vs)
    IN IF len = m /\ ~StandardForm(p)
       THEN Constructed(None, None, "ValueError: edge perm not in standard form")
       ELSE IF len # n /\ len # m
       THEN Constructed(None, None, "ValueError: wrong number of vectors")
       ELSE \* "vectors + [vectors[ep[e]] for e in range(m,n)]", then the lift
            \* of the vectors themselves to the fraction field
            LET r == LayoutNew([fp |-> f, ep |-> p,
                                vectors |-> IF len = n THEN vs ELSE ExtendByEp(p, vs)])
            IN Constructed(r.obj,
                           IF K \in _Fields THEN K ELSE fraction_field(K), r.err)

\* FlatVeeringTriangulation.__init__ up to "self._holonomies = holonomies":
\* the list of holonomies, or the exception.  Over a ring that is not a field
\* the lift reads self._holonomies, which no statement has assigned yet; the
\* extension of a list of m vectors reads the name "vectors", which the
\* constructor does not have.
FlatHolonomies(p, vs, K) ==
    LET n == num_half_edges(p)
        m == num_edges(p)
        len == Cardinality(DOMAIN vs)
    IN IF K \notin _Fields THEN Result(None, "AttributeError: _holonomies")
       ELSE IF len = m /\ ~StandardForm(p)
       THEN Result(None, "ValueError: edge perm not in standard form")
       ELSE IF len = m /\ m < n THEN Result(None, "NameError: vectors")
       ELSE IF len # n THEN Result(None, "ValueError: wrong number of vectors")
       ELSE Result(vs, "none")

\* The certificates is_abelian can return for the holonomies h (a result of
\* FlatHolonomies); None: no certificate, or no call.
Certificates(f, p, h) ==
    IF h.err # "none" \/ is_abelian(f, p, h.obj) = {} THEN {None}
    ELSE is_abelian(f, p, h.obj)

\* FlatVeeringTriangulation.__init__(triangulation, holonomies) for a list vs
\* with parent K, when is_abelian returns cert.
FlatVeeringTriangulation(f, p, vs, K, cert) ==
    LET h == FlatHolonomies(p, vs, K)
    IN IF h.err # "none" THEN Constructed(None, None, h.err)
       ELSE LET r == FlatNew(f, p, h.obj, cert, TRUE)
            IN Constructed(r.obj, K, r.err)

Restrict(vs, k) == [e \in 0..(k - 1) |-> vs[e]]

\* The lists tried: a valid list of n vectors, its first m vectors, its first
\* two; parents ZZ and QQ.  With s1 = -1 and with the faces of 2 and 4 negated
\* opposite half-edges carry the same vector.
NewInputs ==
    { [cls |-> c, fp |-> t.fp, ep |-> t.ep, vectors |-> Restrict(t.vectors, k), K |-> K] :
        c \in {"flat", "layout"}, K \in Rings,
        k \in {2, 3, 5, 6},
        t \in { [fp |-> TwoFaces, ep |-> p, vectors |-> TwoFaceVectors(T, s0, s1)] :
                    p \in {TorusEp, FoldedEp}, T \in BaseTriangles,
                    s0 \in Signs, s1 \in Signs } }
    \cup
    { [cls |-> c, fp |-> FourFaces, ep |-> FourFacesEp,
       vectors |-> Restrict(FourFacesVectors(N), k), K |-> K] :
        c \in {"flat", "layout"}, K \in Rings, k \in {6, 12}, N \in {{}, {2, 4}} }

NewInit ==
    /\ flat \in { [pc |-> "call", in |-> i, cert |-> None, obj |-> None, K |-> None,
                   err |-> "none"] : i \in NewInputs }
    /\ fp = <<>> /\ ep = <<>> /\ colouring = <<>> /\ vectors = <<>> /\ pos = None
    /\ pc = "idle" /\ face_seen = <<>> /\ wait = {} /\ q = <<>> /\ y = 0
    /\ bbox = BBox(0, 0, 0, 0) /\ y_space = 0 /\ err = "none"
    /\ last = [op |-> "none", arg |-> <<>>] /\ pre = None /\ nops = 0
    /\ sq = None /\ ret = None

NewDone(cert, r) ==
    /\ flat' = [flat EXCEPT !.pc = "done", !.cert = cert, !.obj = r.obj,
                            !.K = r.K, !.err = r.err]
    /\ UNCHANGED <<layoutvars, sq, ret>>

NewLayout ==
    /\ flat.pc = "call"
    /\ flat.in.cls = "layout"
    /\ \E r \in {FlatVeeringTriangulationLayout(flat.in.fp, flat.in.ep,
                                                flat.in.vectors, flat.in.K)} :
          NewDone(None, r)

NewFlat ==
    /\ flat.pc = "call"
    /\ flat.in.cls = "flat"
    /\ \E h \in {FlatHolonomies(flat.in.ep, flat.in.vectors, flat.in.K)} :
          \E cert \in Certificates(flat.in.fp, flat.in.ep, h) :
             \E r \in {FlatVeeringTriangulation(flat.in.fp, flat.in.ep, flat.in.vectors,
                                                flat.in.K, cert)} :
                NewDone(cert, r)

NewNext == NewLayout \/ NewFlat

NewSpec == NewInit /\ [][NewNext]_vars

\* The vectors the object built stores.
Stored == IF flat.in.cls = "flat" THEN flat.obj.holonomies ELSE flat.obj.vectors

\* The object stores v for half-edge e: as it is in a layout, up to the sign
\* canonicalization in a flat structure.
StoresAt(e, v) ==
    IF flat.in.cls = "flat" THEN Stored[e] \in {v, Neg(v)} ELSE Stored[e] = v

\* vs is a list of one vector per half-edge that passes the check.
ValidVectors(f, p, vs) ==
    /\ DOMAIN vs = DOMAIN p
    /\ LayoutNew([fp |-> f, ep |-> p, vectors |-> vs]).err = "none"

\* C12: a construction from a valid list of n vectors whose parent is not a
\* field succeeds, the object is over the fraction field, and every stored
\* vector has the coordinates supplied.
C12_FractionField ==
    (/\ flat.pc = "done"
     /\ flat.in.K \notin _Fields
     /\ ValidVectors(flat.in.fp, flat.in.ep, flat.in.vectors)) =>
        /\ flat.err = "none"
        /\ flat.K = fraction_field(flat.in.K)
        /\ \A e \in DOMAIN flat.in.fp : StoresAt(e, flat.in.vectors[e])

\* C13: a construction from a list of m vectors over a field, for an edge
\* permutation in standard form, succeeds when the list extended by the
\* opposite-edge relation is valid; half-edge e < m stores the vector
\* supplied for e, half-edge e >= m the one supplied for ep[e].
C13_PerEdge ==
    (/\ flat.pc = "done"
     /\ flat.in.K \in _Fields
     /\ Cardinality(DOMAIN flat.in.vectors) = num_edges(flat.in.ep)
     /\ StandardForm(flat.in.ep)
     /\ ValidVectors(flat.in.fp, flat.in.ep, ExtendByEp(flat.in.ep, flat.in.vectors))) =>
        /\ flat.err = "none"
        /\ \A e \in DOMAIN flat.in.fp :
              StoresAt(e, ExtendByEp(flat.in.ep, flat.in.vectors)[e])

-----------------------------------------------------------------------------
(* What a flip computes *)

\* A flip of a layout that passed the check has returned.
FlipReturned == last.op = "flip" /\ err = "none" /\ _check(pre) = "none"

\* -1 when flip first negates the face of E (positions set and E carrying
\* the vector of e), 1 otherwise.
FlipSign ==
    IF pre.pos # None /\ pre.vectors[pre.ep[LastEdge]] = pre.vectors[LastEdge]
    THEN -1 ELSE 1

\* C14 (as claimed): after a flip(e) that returned, with E, a, b, c, d and the
\* vectors and positions read before the call, vector(e) = vector(d) +
\* vector(a), vector(E) = vector(b) + vector(c), e has the slope colour of its
\* new vector, and with positions set pos(e) = pos(d) and pos(E) = pos(b).
C14_FlipFromOld ==
    FlipReturned =>
        LET e == LastEdge
            E == pre.ep[e]
            a == pre.fp[e]
            b == pre.fp[a]
            c == pre.fp[E]
            d == pre.fp[c]
        IN /\ vectors[e] = Add(pre.vectors[d], pre.vectors[a])
           /\ vectors[E] = Add(pre.vectors[b], pre.vectors[c])
           /\ colouring[e] = vec_slope(vectors[e])
           /\ pre.pos # None => pos[e] = pre.pos[d] /\ pos[E] = pre.pos[b]

\* C14 (amended): the vectors of the face of E enter with the sign s the flip
\* gives that face first: vector(e) = s*vector(d) + vector(a), vector(E) =
\* vector(b) + s*vector(c); e has the slope colour of its new vector; with
\* positions set pos(E) = pos(b) and pos(e) = pos(e) + s*vector(c), the corner
\* d has once the face of E lies against e.
C14_FlipFromGlued ==
    FlipReturned =>
        LET e == LastEdge
            E == pre.ep[e]
            a == pre.fp[e]
            b == pre.fp[a]
            c == pre.fp[E]
            d == pre.fp[c]
        IN /\ vectors[e] = Add(Scale(FlipSign, pre.vectors[d]), pre.vectors[a])
           /\ vectors[E] = Add(pre.vectors[b], Scale(FlipSign, pre.vectors[c]))
           /\ colouring[e] = vec_slope(vectors[e])
           /\ pre.pos # None =>
                 /\ pos[E] = pre.pos[b]
                 /\ pos[e] = Add(pre.pos[e], Scale(FlipSign, pre.vectors[c]))

\* A flip with positions set returned after negating the face of E.
C14_Witness ==
    /\ FlipReturned
    /\ FlipSign = -1
    /\ vectors[LastEdge] # Add(pre.vectors[pre.fp[pre.fp[pre.ep[LastEdge]]]],
                               pre.vectors[pre.fp[LastEdge]])
    /\ pos[LastEdge] # None

-----------------------------------------------------------------------------
(* set_pos: faces seen and faces placed *)

\* set_pos is running, or has returned, after a call with cylinders that are
\* cyclic chains (or with none).
InSetPos ==
    /\ last.op = "set_pos"
    /\ ProperCylinders(last.arg[1])

\* C15: from the end of the cylinder phase on, after every step of the forest
\* phase, a corner has a position exactly when its face is marked seen; the
\* 'cylinder badly set' error and the assertions of the forest loop are not
\* raised.
C15_SeenIffPlaced ==
    InSetPos =>
        /\ err \notin {"RuntimeError: cylinder badly set", "AssertionError"}
        /\ err = "none" =>
              \A e \in DOMAIN fp :
                  (pos[e] # None) <=> (face_seen[half_edge_to_face(fp, e)] = TRUE)

\* The forest phase has placed a face next to the root of a tree, after a
\* cylinder phase that placed some faces.
C15_Witness ==
    /\ InSetPos
    /\ last.arg[1] # <<>>
    /\ pc = "tree"
    /\ Len(q) >= 2
    /\ \E i \in DOMAIN face_seen : face_seen[i] = TRUE /\ \A k \in DOMAIN q : q[k] # i
    /\ \A e \in DOMAIN fp :
          (pos[e] # None) <=> (face_seen[half_edge_to_face(fp, e)] = TRUE)

-----------------------------------------------------------------------------
(* set_pos: the components are stacked *)

\* The faces a cylinder places: those of ep[e] for e in cyl.
CylinderFaces(cyl) == {half_edge_to_face(fp, ep[cyl[i]]) : i \in DOMAIN cyl}

\* The corners of the faces in F.
Corners(F) == {e \in DOMAIN fp : half_edge_to_face(fp, e) \in F}

\* With the positions P the faces in F fill the strip that starts at height
\* y0 and is h high: every corner has y0 <= y <= y0 + h and x >= 0, and some
\* corner has x = 0.
InStrip(P, F, y0, h) ==
    /\ \A e \in Corners(F) :
          /\ P[e] # None
          /\ P[e][1] >= 0
          /\ P[e][2] >= y0
          /\ P[e][2] <= y0 + h
    /\ F # {} => \E e \in Corners(F) : P[e][1] = 0

\* The height cursor after the first k of the cylinders cs, computed as the
\* cylinder phase computes it from the layout the call started on.
CursorAfter(cs, k, gap) ==
    Cylinders(fp, ep,
              CylState(vectors, [e \in DOMAIN fp |-> None],
                       [i \in 0..(num_faces(fp) - 1) |-> FALSE], BBox(0, 0, 0, 0), 0, "none"),
              SubSeq(cs, 1, k), 1, gap).y

\* The faces of the k-th cylinder of cs that no later cylinder places again.
OwnFaces(cs, k) ==
    CylinderFaces(cs[k]) \ UNION {CylinderFaces(cs[j]) : j \in (k + 1)..Len(cs)}

\* The step that ends the cylinder phase: every cylinder fills its strip, and
\* the strip of the next begins a gap above it.
CylindersStacked(cs, gap) ==
    \A k \in 1..Len(cs) :
        \E y0 \in {CursorAfter(cs, k - 1, gap)}, y1 \in {CursorAfter(cs, k, gap)} :
            /\ y1 - gap >= y0
            /\ InStrip(pos', OwnFaces(cs, k), y0, y1 - gap - y0)

\* The step that translates a tree: the tree fills its strip.
TreeStacked ==
    /\ y' - y_space >= y
    /\ InStrip(pos', Range(q), y, y' - y_space - y)

\* A step of the forest phase moves no corner placed before, except those of
\* the tree being translated.
PlacedStay ==
    \A e \in DOMAIN fp :
        (pos[e] # None /\ half_edge_to_face(fp, e) \notin Range(q')) => pos'[e] = pos[e]

NoFoldedEdge(cs) ==
    \A k \in DOMAIN cs : \A i \in DOMAIN cs[k] : ep[cs[k][i]] # cs[k][i]

\* No face is placed twice: the half-edges of all the cylinders lead into
\* different faces.
FacesOnce(cs) ==
    \A k, j \in DOMAIN cs : \A i \in DOMAIN cs[k], l \in DOMAIN cs[j] :
        (k # j \/ i # l) =>
            half_edge_to_face(fp, ep[cs[k][i]]) # half_edge_to_face(fp, ep[cs[j][l]])

-----------------------------------------------------------------------------
(* glue_side_by_side: what it leaves alone and what it achieves *)

GlueCalled == last.op = "glue_side_by_side" /\ pre.pos # None

GlueMoves ==
    /\ last.arg[1] # pre.ep[last.arg[1]]
    /\ _edge_is_boundary(pre, last.arg[1])

\* Outside the face of a nothing differs from before the call; inside it only
\* corners and vectors can, the vectors by a negation of all three.
GlueFrame ==
    LET F == FaceOf(pre.fp, last.arg[1])
    IN /\ fp = pre.fp /\ ep = pre.ep /\ colouring = pre.colouring
       /\ \A e \in DOMAIN fp \ F :
             vectors[e] = pre.vectors[e] /\ pos[e] = pre.pos[e]
       /\ \/ \A e \in F : vectors[e] = pre.vectors[e]
          \/ \A e \in F : vectors[e] = Neg(pre.vectors[e])

GlueEffect == ~_edge_is_boundary(self, last.arg[1]) /\ err = "none"

-----------------------------------------------------------------------------
(* The curves of a structure *)

\* The pairs (d, x): d a diagonal of S, x a side of the square about d that
\* has the distinguished colour.
DiagonalSides(S) ==
    {r \in S.diagonals \X indices(S.ep) :
        \E i \in 1..4 :
            /\ norm(S.ep, square_about_edge(S.fp, S.ep, r[1])[i]) = r[2]
            /\ S.colouring[r[2]] = S.colour}

\* The smallest transitive relation that contains R.
RECURSIVE TransitiveClosure(_)
TransitiveClosure(R) ==
    Eval(R \cup {<<t[1][1], t[2][2]>> : t \in {u \in R \X R : u[1][2] = u[2][1]}},
         LAMBDA R2 : IF R2 = R THEN R ELSE TransitiveClosure(R2))

\* The smallest equivalence relation on X that contains R.
SmallestEquivalence(X, R) ==
    TransitiveClosure(R \cup {<<r[2], r[1]>> : r \in R} \cup {<<x, x>> : x \in X})

EquivalenceClasses(X, R) ==
    Eval(SmallestEquivalence(X, R), LAMBDA E : {{z \in X : <<x, z>> \in E} : x \in X})

\* The structures a constructor call has built in this state.
Built ==
    {sq} \cup (IF ret.op \in {"twist", "swap"} /\ ret.err = "none" THEN {ret.out} ELSE {})

CurvesAreClasses(S) ==
    /\ Range(S.curves) =
          {c \in EquivalenceClasses(indices(S.ep), DiagonalSides(S)) : Cardinality(c) > 1}
    /\ \A i, j \in DOMAIN S.curves : i # j => S.curves[i] \cap S.curves[j] = {}
    /\ \A i \in DOMAIN S.curves :
          Cardinality(S.curves[i]) > 1 /\ S.curves[i] \cap S.diagonals # {}

\* C18: the curves of a constructed structure are exactly the classes with
\* more than one element of the smallest equivalence relation on the edge
\* indices that relates every diagonal to the sides of its square that have
\* the distinguished colour; they are pairwise disjoint and each contains a
\* diagonal.
C18_Curves == \A S \in Built : CurvesAreClasses(S)

\* A structure returned by a move that has two curves and an edge in none.
C18_Witness ==
    /\ ret.op \in {"twist", "swap"}
    /\ ret.err = "none"
    /\ Len(ret.out.curves) >= 2
    /\ \E x \in indices(ret.out.ep) : \A c \in Range(ret.out.curves) : x \notin c

-----------------------------------------------------------------------------
(* twist: the order of the flips *)

\* The two orders of "for edge in self.diagonals.intersection(curve)" give the
\* same outcome, and every flip of the loop is made.
SameInBothOrders(S, curve) ==
    \E m \in {twist(S, curve, FALSE)} : \E r \in {twist(S, curve, TRUE)} :
        /\ m.err = r.err
        /\ m.out = r.out
        /\ Len(m.flipped) = Cardinality(S.diagonals \cap curve)
        /\ Len(r.flipped) = Cardinality(S.diagonals \cap curve)

\* C19: for every detected curve of a structure, twist(curve) returns the same
\* triangulation and colouring whichever order the diagonals of the curve are
\* flipped in, and no flip of the loop is refused.
C19_TwistOrder == \A c \in Range(sq.curves) : SameInBothOrders(sq, c)

\* A twist has returned after flipping two diagonals of its curve, the larger
\* one first.
C19_Witness ==
    /\ ret.op = "twist"
    /\ ret.err = "none"
    /\ ret.arg[2]
    /\ Len(ret.flipped) = 2
    /\ ret.flipped[1] > ret.flipped[2]
    /\ ret.out.fp # ret.pre.fp

-----------------------------------------------------------------------------
(* set_pos: the trees of the forest *)

Faces == 0..(num_faces(fp) - 1)

SeenFaces == {i \in DOMAIN face_seen : face_seen[i] = TRUE}

\* The faces the cylinders of the running call have placed.
CylinderSeen == UNION {CylinderFaces(last.arg[1][k]) : k \in DOMAIN last.arg[1]}

\* The faces of A that share an edge with a face of C.
AdjacentFaces(C, A) ==
    {g \in A : \E e \in Corners(C) : half_edge_to_face(fp, ep[e]) = g}

\* The connected component of the faces C in the face-adjacency graph
\* restricted to the faces A.
RECURSIVE Component(_, _)
Component(C, A) ==
    Eval(C \cup AdjacentFaces(C, A), LAMBDA D : IF D = C THEN C ELSE Component(D, A))

\* The trees a forest must consist of, whatever the shuffles: the component of
\* the lowest face outside Done, then the same again with that component done.
RECURSIVE ExpectedTrees(_)
ExpectedTrees(Done) ==
    IF Faces \subseteq Done THEN <<>>
    ELSE Eval(Component({SetMin(Faces \ Done)}, Faces \ CylinderSeen),
              LAMBDA C : <<C>> \o ExpectedTrees(Done \cup C))

\* The faces of the first k trees.
TreesUpTo(T, k) == UNION {T[i] : i \in 1..k}

\* A new tree starts at the lowest-indexed face not seen.
RootStep ==
    /\ Len(q') = 1
    /\ face_seen[q'[1]] = FALSE
    /\ \A i \in Faces : i < q'[1] => face_seen[i] = TRUE

\* A face is put on the queue only when unseen and unplaced, and is placed then.
PopStep ==
    /\ Len(q') >= Len(q)
    /\ SubSeq(q', 1, Len(q)) = q
    /\ \A i \in (Len(q) + 1)..Len(q') :
          /\ face_seen[q'[i]] = FALSE
          /\ \A j \in 1..(i - 1) : q'[j] # q'[i]
          /\ \A e \in Corners({q'[i]}) : pos[e] = None /\ pos'[e] # None
    /\ \A i \in Faces : (face_seen[i] = FALSE /\ face_seen'[i] = TRUE) => i \in Range(q')

\* A tree that is translated is a whole component, the one expected at this
\* point of the forest.
TreeStep ==
    \E T \in {ExpectedTrees(CylinderSeen)} :
        \E k \in DOMAIN T :
            /\ Range(q) = T[k]
            /\ SeenFaces = CylinderSeen \cup TreesUpTo(T, k)
            /\ Cardinality(Range(q)) = Len(q)
            /\ Range(q) \cap CylinderSeen = {}

\* C20: in the forest phase a face is enqueued and placed once, a tree starts
\* at the lowest-indexed unseen face, and the faces of a finished tree are one
\* connected component of the face adjacency among the faces the cylinders did
\* not place, the k-th one in an order that no shuffle changes.
C20_Forest ==
    [][ /\ (pc = "forest" /\ pc' = "tree") => RootStep
        /\ (pc = "tree" /\ pc' = "tree") => PopStep
        /\ (pc = "tree" /\ pc' = "forest") => TreeStep
        /\ (pc = "forest" /\ pc' = "idle" /\ err' = "none")
              => SeenFaces = Faces /\ (q # <<>> => TreeStep) ]_vars

\* set_pos has returned after a cylinder and a forest of two trees, the last
\* of them of two faces or more.
C20_Witness ==
    /\ SetPosReturned
    /\ CylinderSeen # {}
    /\ Len(ExpectedTrees(CylinderSeen)) >= 2
    /\ Len(q) >= 1

====
